---------------------------- MODULE Spec2Model ----------------------------
(***************************************************************************)
(* Sentinel Integrity Layer: the audit engine (runIntegrityScan and its    *)
(* fixtures) and the dashboard page that drives it (Sentinel.tsx).         *)
(*                                                                         *)
(* Numbers.  trustRating is held in hundredths (0.58 is 58); the health    *)
(* score is computed in millionths (Scale) and returned in hundredths, so  *)
(* that Math.round(x * 100) / 100 is a real rounding step.  The error of   *)
(* the double arithmetic in "count * 0.1" and "1.0 - penalty" is an        *)
(* input fpErr of the scan, any value within FloatErr millionths.          *)
(* Fields no rule reads (originKey, location, timestamp of an event,       *)
(* lastKnownLocation and role of an operator, description of a violation)  *)
(* are left out of the records.                                            *)
(* An optional value (T | null) is a sequence of length 0 or 1.            *)
(***************************************************************************)
EXTENDS Integers, Sequences, FiniteSets, TLC

VARIABLES
    allEvents,     \* runIntegrityScan: the asset events passed in
    allStatuses,   \* runIntegrityScan: the operator statuses passed in
    returned,      \* the report the engine's promise resolved to, if any
    clock,         \* Date.now()
    route,         \* App: the active hash route
    effectPending, \* Sentinel: mounted, useEffect not yet run
    report,        \* Sentinel: useState<IntegrityReport | null>
    isScanning,    \* Sentinel: useState(false)
    pending,       \* Sentinel: executeScan calls suspended at their await
    autoScans,     \* history: executeScan calls made by the mount effect
    userScans,     \* history: executeScan calls made by the button
    outcomes,      \* history: the scans that ended, in order
    navigations    \* history: navigate calls made by the landing page

vars == <<allEvents, allStatuses, returned, clock, route, effectPending,
          report, isScanning, pending, autoScans, userScans, outcomes,
          navigations>>

engineVars == <<allEvents, allStatuses, returned>>
pageVars == <<route, effectPending, report, isScanning, pending,
              autoScans, userScans, outcomes, navigations>>

---------------------------------------------------------------------------
(* Bounds of the model *)

MaxEntities == 3   \* events plus statuses of one scan (SpecEngine)
MaxBulk == 6       \* violating entities of one kind (SpecScore)
MaxClock == 2      \* last value of Date.now()
MaxScanMs == 1     \* longest time one scan takes
MaxClicks == 2     \* activations of the scan control
FloatErr == 1      \* double rounding error, in millionths
MaxWarnings == 1   \* operators with a WARNING in one scan (SpecScore)

(* Program constants *)

BaselineTrust == 60          \* 0.6, in hundredths
MarginalTrust == 80          \* 0.8, in hundredths
Scale == 1000000             \* 1.0, in millionths
PenaltyPerCritical == 100000 \* 0.1, in millionths
Hundred == 100               \* the 100 of Math.round(x * 100) / 100

---------------------------------------------------------------------------
(* Data model *)

StatusCode == {"ERROR", "TASK_COMMENCED", "COMPLETED", "IDLE"}

NoPayload == [present |-> FALSE, keys |-> {}]
EmptyPayload == [present |-> TRUE, keys |-> {}]
Payload(ks) == [present |-> TRUE, keys |-> ks]

Null == <<>>
Some(v) == <<v>>
Value(opt) == opt[1]

AssetEvent(uuid, code, payload) ==
    [assetUuid |-> uuid, statusCode |-> code, dataPayload |-> payload]

OperatorStatus(id, rating, task) ==
    [operatorId |-> id, trustRating |-> rating, currentTaskId |-> task]

Violation(id, type, severity, ref) ==
    [id |-> id, type |-> type, severity |-> severity, protocolRef |-> ref]

---------------------------------------------------------------------------
(* runIntegrityScan *)

\* !event.dataPayload || Object.keys(event.dataPayload).length === 0
MissingPayload(event) ==
    \/ ~event.dataPayload.present
    \/ Cardinality(event.dataPayload.keys) = 0

\* AuditEvent with criticalAssetCount++ moved inside the payload test.
AuditEventCountsViolations(acc, event) ==
    IF event.statusCode = "ERROR" /\ MissingPayload(event)
    THEN [criticalAssetCount |-> acc.criticalAssetCount + 1,
          violations |->
              Append(acc.violations,
                     Violation(event.assetUuid, "DATA_INTEGRITY",
                               "CRITICAL", "CCP-3.1"))]
    ELSE acc

\* AuditEvent testing only !event.dataPayload, not the number of keys.
AuditEventNullOnly(acc, event) ==
    IF event.statusCode = "ERROR"
    THEN [criticalAssetCount |-> acc.criticalAssetCount + 1,
          violations |->
              IF ~event.dataPayload.present
              THEN Append(acc.violations,
                          Violation(event.assetUuid, "DATA_INTEGRITY",
                                    "CRITICAL", "CCP-3.1"))
              ELSE acc.violations]
    ELSE acc

\* AuditEvent with violations.unshift in place of violations.push.
AuditEventUnshift(acc, event) ==
    IF event.statusCode = "ERROR"
    THEN [criticalAssetCount |-> acc.criticalAssetCount + 1,
          violations |->
              IF MissingPayload(event)
              THEN << Violation(event.assetUuid, "DATA_INTEGRITY",
                                "CRITICAL", "CCP-3.1") >> \o acc.violations
              ELSE acc.violations]
    ELSE acc

\* The callback of allEvents.forEach, on the accumulated
\* [criticalAssetCount, violations].
AuditEvent(acc, event) ==
    IF event.statusCode = "ERROR"
    THEN [criticalAssetCount |-> acc.criticalAssetCount + 1,
          violations |->
              IF MissingPayload(event)
              THEN Append(acc.violations,
                          Violation(event.assetUuid, "DATA_INTEGRITY",
                                    "CRITICAL", "CCP-3.1"))
              ELSE acc.violations]
    ELSE acc

\* AuditStatus with <= in place of < in both comparisons.
AuditStatusInclusive(violations, status) ==
    IF status.trustRating <= BaselineTrust /\ status.currentTaskId # Null
    THEN Append(violations,
                Violation(status.operatorId, "TRUST_VIOLATION",
                          "CRITICAL", "CCP-4.1"))
    ELSE IF status.trustRating <= MarginalTrust /\ status.currentTaskId = Null
    THEN Append(violations,
                Violation(status.operatorId, "PROTOCOL_BREACH",
                          "WARNING", "CCP-4.2"))
    ELSE violations

\* AuditStatus whose first branch does not ask for an active task.
AuditStatusAnyTask(violations, status) ==
    IF status.trustRating < BaselineTrust
    THEN Append(violations,
                Violation(status.operatorId, "TRUST_VIOLATION",
                          "CRITICAL", "CCP-4.1"))
    ELSE IF status.trustRating < MarginalTrust /\ status.currentTaskId = Null
    THEN Append(violations,
                Violation(status.operatorId, "PROTOCOL_BREACH",
                          "WARNING", "CCP-4.2"))
    ELSE violations

\* AuditStatus without its else-if branch.
AuditStatusNoWarning(violations, status) ==
    IF status.trustRating < BaselineTrust /\ status.currentTaskId # Null
    THEN Append(violations,
                Violation(status.operatorId, "TRUST_VIOLATION",
                          "CRITICAL", "CCP-4.1"))
    ELSE violations

\* AuditStatus with two independent if statements, the second on
\* trustRating alone.
AuditStatusBothRules(violations, status) ==
    LET first ==
            IF status.trustRating < BaselineTrust
               /\ status.currentTaskId # Null
            THEN Append(violations,
                        Violation(status.operatorId, "TRUST_VIOLATION",
                                  "CRITICAL", "CCP-4.1"))
            ELSE violations
    IN  IF status.trustRating < MarginalTrust
        THEN Append(first,
                    Violation(status.operatorId, "PROTOCOL_BREACH",
                              "WARNING", "CCP-4.2"))
        ELSE first

\* The callback of allStatuses.forEach, on the accumulated violations.
AuditStatus(violations, status) ==
    IF status.trustRating < BaselineTrust /\ status.currentTaskId # Null
    THEN Append(violations,
                Violation(status.operatorId, "TRUST_VIOLATION",
                          "CRITICAL", "CCP-4.1"))
    ELSE IF status.trustRating < MarginalTrust /\ status.currentTaskId = Null
    THEN Append(violations,
                Violation(status.operatorId, "PROTOCOL_BREACH",
                          "WARNING", "CCP-4.2"))
    ELSE violations

RECURSIVE PassA(_, _, _)
\* allEvents.forEach(...), from index i on.
PassA(events, i, acc) ==
    IF i > Len(events) THEN acc
    ELSE PassA(events, i + 1, AuditEvent(acc, events[i]))

RECURSIVE PassB(_, _, _)
\* allStatuses.forEach(...), from index i on.
PassB(statuses, i, violations) ==
    IF i > Len(statuses) THEN violations
    ELSE PassB(statuses, i + 1, AuditStatus(violations, statuses[i]))

\* violations.filter(v => v.severity === 'CRITICAL').length
CriticalCount(violations) ==
    Len(SelectSeq(violations, LAMBDA v : v.severity = "CRITICAL"))

Max(a, b) == IF a >= b THEN a ELSE b

\* Math.round(x * 100), x in millionths: the nearest integer, halves up.
RoundHundredths(x) == (2 * Hundred * x + Scale) \div (2 * Scale)

\* HealthScore whose penalty counts every violation, not the CRITICAL ones.
HealthScoreAllViolations(violations, fpErr) ==
    LET penalty == Len(violations) * PenaltyPerCritical + fpErr
        systemHealthScore == Max(0, Scale - penalty)
    IN  RoundHundredths(systemHealthScore)

\* penalty, Math.max(0.0, 1.0 - penalty) and the rounding of the result;
\* the score is returned in hundredths.
HealthScore(violations, fpErr) ==
    LET penalty == CriticalCount(violations) * PenaltyPerCritical + fpErr
        systemHealthScore == Max(0, Scale - penalty)
    IN  RoundHundredths(systemHealthScore)

runIntegrityScan(events, statuses, startTime, endTime, fpErr) ==
    LET passA == PassA(events, 1,
                       [criticalAssetCount |-> 0, violations |-> <<>>])
        violations == PassB(statuses, 1, passA.violations)
    IN  [timestamp |-> endTime,
         systemHealthScore |-> HealthScore(violations, fpErr),
         criticalAssetCount |-> passA.criticalAssetCount,
         violations |-> violations,
         scanDurationMs |-> endTime - startTime]

\* The fixtures.
MOCK_ASSET_EVENTS ==
    << AssetEvent("ASSET-101", "TASK_COMMENCED", Payload({"taskStep"})),
       AssetEvent("ASSET-202", "ERROR", EmptyPayload) >>

MOCK_OPERATOR_STATUSES ==
    << OperatorStatus("OP-JANE", 95, Some("T-456")),
       OperatorStatus("OP-JOE", 58, Some("T-789")),
       OperatorStatus("OP-KORE", 72, Null) >>

---------------------------------------------------------------------------
(* The engine on its own: inputs drawn in Init, the scan applied to them *)

AssetId(i) == "ASSET-" \o ToString(i)
OperatorId(i) == "OP-" \o ToString(i)

PayloadKinds == {NoPayload, EmptyPayload, Payload({"taskStep"})}
EventKinds == StatusCode \X PayloadKinds

TrustRatings ==
    {BaselineTrust - 1, BaselineTrust, MarginalTrust - 1, MarginalTrust}
TaskIds == {Null, Some("T-1")}
StatusKinds == TrustRatings \X TaskIds

\* The page is not involved in the engine's specifications.
PageIdle ==
    /\ route = "/"
    /\ effectPending = FALSE
    /\ report = Null
    /\ isScanning = FALSE
    /\ pending = <<>>
    /\ autoScans = 0
    /\ userScans = 0
    /\ outcomes = <<>>
    /\ navigations = 0

InitEngine ==
    /\ \E n \in 0..MaxEntities :
         \E m \in 0..(MaxEntities - n) :
           \E ek \in [1..n -> EventKinds], sk \in [1..m -> StatusKinds] :
             /\ allEvents =
                    [i \in 1..n |-> AssetEvent(AssetId(i), ek[i][1], ek[i][2])]
             /\ allStatuses =
                    [i \in 1..m |->
                        OperatorStatus(OperatorId(i), sk[i][1], sk[i][2])]
    /\ returned = Null
    /\ clock = 0
    /\ PageIdle

\* One call of runIntegrityScan on the inputs, taking d ms.
Scan(events, statuses) ==
    \E d \in 0..MaxScanMs, fpErr \in (0 - FloatErr)..FloatErr :
        /\ clock + d <= MaxClock
        /\ returned' =
              Some(runIntegrityScan(events, statuses, clock, clock + d, fpErr))
        /\ clock' = clock + d

RunScan ==
    /\ returned = Null
    /\ Scan(allEvents, allStatuses)
    /\ UNCHANGED <<allEvents, allStatuses, pageVars>>

NextEngine == RunScan

SpecEngine == InitEngine /\ [][NextEngine]_vars

---------------------------------------------------------------------------
(* Claims about the engine (SpecEngine) *)

Scanned == returned # Null
Result == Value(returned)

\* The positions of a sequence whose entry satisfies Test.
Positions(xs, Test(_)) == {i \in DOMAIN xs : Test(xs[i])}

\* The violations of the result that carry the id.
ViolationsOf(id) == Positions(Result.violations, LAMBDA v : v.id = id)

IsError(event) == event.statusCode = "ERROR"
LacksPayload(event) ==
    event.dataPayload = NoPayload \/ event.dataPayload = EmptyPayload
HasTask(status) == status.currentTaskId # Null

\* C2: the report's criticalAssetCount is the number of input events whose
\* statusCode is ERROR, whatever their payload and whether or not they
\* produced a violation; other events and operator statuses do not count.
C2_CriticalAssetCount ==
    Scanned =>
        Result.criticalAssetCount = Cardinality(Positions(allEvents, IsError))

\* An ERROR event with a payload (no violation) is counted beside an event
\* of another status and an operator status that are not.
C2_Witness ==
    /\ Scanned
    /\ \E i \in DOMAIN allEvents :
          /\ IsError(allEvents[i])
          /\ ~LacksPayload(allEvents[i])
          /\ ViolationsOf(allEvents[i].assetUuid) = {}
    /\ \E i \in DOMAIN allEvents : ~IsError(allEvents[i])
    /\ allStatuses # <<>>
    /\ Result.criticalAssetCount = 1

\* C3: an asset event has a violation iff its statusCode is ERROR and its
\* payload is absent or has no entries; it then has exactly one, which is
\* DATA_INTEGRITY / CRITICAL / CCP-3.1 with id = assetUuid.
C3_AssetViolation ==
    Scanned =>
        \A i \in DOMAIN allEvents :
            LET event == allEvents[i]
                mine == ViolationsOf(event.assetUuid)
            IN  IF IsError(event) /\ LacksPayload(event)
                THEN /\ Cardinality(mine) = 1
                     /\ \A p \in mine :
                           Result.violations[p] =
                               Violation(event.assetUuid, "DATA_INTEGRITY",
                                         "CRITICAL", "CCP-3.1")
                ELSE mine = {}

\* One scan sees an ERROR event with an empty payload (violation), one with
\* a payload and one of another status without payload (no violation).
C3_Witness ==
    /\ Scanned
    /\ \E i \in DOMAIN allEvents :
          /\ IsError(allEvents[i])
          /\ allEvents[i].dataPayload = EmptyPayload
          /\ ViolationsOf(allEvents[i].assetUuid) # {}
    /\ \E i \in DOMAIN allEvents :
          /\ IsError(allEvents[i])
          /\ ~LacksPayload(allEvents[i])
          /\ ViolationsOf(allEvents[i].assetUuid) = {}
    /\ \E i \in DOMAIN allEvents :
          /\ ~IsError(allEvents[i])
          /\ allEvents[i].dataPayload = NoPayload
          /\ ViolationsOf(allEvents[i].assetUuid) = {}

\* C4: no violation for an operator with trustRating >= 0.6 and an active
\* task, nor for one with trustRating >= 0.8 and no active task.
C4_NoOperatorViolation ==
    Scanned =>
        \A i \in DOMAIN allStatuses :
            LET status == allStatuses[i]
            IN  (\/ status.trustRating >= BaselineTrust /\ HasTask(status)
                 \/ status.trustRating >= MarginalTrust /\ ~HasTask(status))
                => ViolationsOf(status.operatorId) = {}

\* Both boundary cases in one scan: 0.60 with a task, 0.80 without.
C4_Witness ==
    /\ Scanned
    /\ \E i \in DOMAIN allStatuses :
          /\ allStatuses[i].trustRating = BaselineTrust
          /\ HasTask(allStatuses[i])
    /\ \E i \in DOMAIN allStatuses :
          /\ allStatuses[i].trustRating = MarginalTrust
          /\ ~HasTask(allStatuses[i])
    /\ Result.violations = <<>>

\* The score the rule gives for c CRITICAL violations, in hundredths.
ExpectedScore(c) == IF c >= 10 THEN 0 ELSE 100 - 10 * c

\* C5: an operator with trustRating < 0.6 and no active task has exactly
\* one violation, PROTOCOL_BREACH / WARNING / CCP-4.2, and does not lower
\* the score: the score is that of the ERROR events without payload and
\* of the sub-baseline operators with an active task alone.
C5_IdleSubBaselineIsWarning ==
    Scanned =>
        /\ \A i \in DOMAIN allStatuses :
              LET status == allStatuses[i]
                  mine == ViolationsOf(status.operatorId)
              IN  (status.trustRating < BaselineTrust /\ ~HasTask(status))
                  => /\ Cardinality(mine) = 1
                     /\ \A p \in mine :
                           Result.violations[p] =
                               Violation(status.operatorId, "PROTOCOL_BREACH",
                                         "WARNING", "CCP-4.2")
        /\ Result.systemHealthScore =
              ExpectedScore(
                  Cardinality(Positions(allEvents,
                      LAMBDA e : IsError(e) /\ LacksPayload(e)))
                  + Cardinality(Positions(allStatuses,
                      LAMBDA s : s.trustRating < BaselineTrust /\ HasTask(s))))

\* Only idle sub-baseline operators were scanned and the score is 1.00.
C5_Witness ==
    /\ Scanned
    /\ Len(allStatuses) >= 2
    /\ \A i \in DOMAIN allStatuses :
          /\ allStatuses[i].trustRating < BaselineTrust
          /\ ~HasTask(allStatuses[i])
    /\ Len(Result.violations) = Len(allStatuses)
    /\ Result.systemHealthScore = 100

IsAssetId(id) == \E i \in DOMAIN allEvents : allEvents[i].assetUuid = id
IsOperatorId(id) ==
    \E i \in DOMAIN allStatuses : allStatuses[i].operatorId = id
AssetIndex(id) ==
    CHOOSE i \in DOMAIN allEvents : allEvents[i].assetUuid = id
OperatorIndex(id) ==
    CHOOSE i \in DOMAIN allStatuses : allStatuses[i].operatorId = id

\* C7: in the returned violations every asset-derived violation precedes
\* every operator-derived one, and inside each group the violations are in
\* the order of their entities in the input.
C7_ViolationOrder ==
    Scanned =>
        \A p, q \in DOMAIN Result.violations :
            p < q =>
                LET a == Result.violations[p].id
                    b == Result.violations[q].id
                IN  /\ IsOperatorId(a) => IsOperatorId(b)
                    /\ (IsAssetId(a) /\ IsAssetId(b))
                           => AssetIndex(a) < AssetIndex(b)
                    /\ (IsOperatorId(a) /\ IsOperatorId(b))
                           => OperatorIndex(a) < OperatorIndex(b)

\* Two asset violations followed by an operator violation.
C7_Witness ==
    /\ Scanned
    /\ Len(Result.violations) = 3
    /\ IsAssetId(Result.violations[1].id)
    /\ IsAssetId(Result.violations[2].id)
    /\ IsOperatorId(Result.violations[3].id)

---------------------------------------------------------------------------
(* The scoring step under many violations: the engine applied again and   *)
(* again to inputs made of a critical events, b critical operators and w  *)
(* operators with a warning.                                              *)

BulkEvents(a) == [i \in 1..a |-> AssetEvent(AssetId(i), "ERROR", EmptyPayload)]

BulkStatuses(b, w) ==
    [i \in 1..(b + w) |->
        IF i <= b
        THEN OperatorStatus(OperatorId(i), BaselineTrust - 1, Some("T-1"))
        ELSE OperatorStatus(OperatorId(i), MarginalTrust - 1, Null)]

InitScore ==
    /\ \E a \in 0..MaxBulk, b \in 0..MaxBulk, w \in 0..MaxWarnings :
          /\ allEvents = BulkEvents(a)
          /\ allStatuses = BulkStatuses(b, w)
    /\ returned = Null
    /\ clock = 0
    /\ PageIdle

\* The caller scans another input after the first.
ScanAgain ==
    /\ returned # Null
    /\ \E a \in 0..MaxBulk, b \in 0..MaxBulk, w \in 0..MaxWarnings :
          /\ allEvents' = BulkEvents(a)
          /\ allStatuses' = BulkStatuses(b, w)
          /\ Scan(BulkEvents(a), BulkStatuses(b, w))
    /\ UNCHANGED pageVars

NextScore == RunScan \/ ScanAgain

SpecScore == InitScore /\ [][NextScore]_vars

\* C6: the returned systemHealthScore is max(0, 1 - 0.1 * c) to 2 decimals,
\* c the number of CRITICAL violations returned: 1.00, 0.90, ..., 0.00 for
\* c = 0..10 and 0 from there on, within [0,1], whatever the number of
\* WARNING violations; and a scan returning at least as many CRITICAL
\* violations as the one before never returns a higher score.
C6_HealthScore ==
    /\ [](Scanned =>
            /\ Result.systemHealthScore =
                  ExpectedScore(CriticalCount(Result.violations))
            /\ Result.systemHealthScore \in 0..100)
    /\ [][(Scanned /\ returned' # Null
           /\ CriticalCount(Value(returned').violations)
                 >= CriticalCount(Result.violations))
          => Value(returned').systemHealthScore <= Result.systemHealthScore
         ]_vars

\* More than 10 CRITICAL violations and a WARNING: the score is floored at 0.
C6_Witness ==
    /\ Scanned
    /\ CriticalCount(Result.violations) > 10
    /\ Len(Result.violations) > CriticalCount(Result.violations)
    /\ Result.systemHealthScore = 0

---------------------------------------------------------------------------
(* The application: the router and the dashboard page *)

Routes == {"/", "/sentinel"}

\* The element the router renders for a path; none for an unmatched path.
RouteElement(path) ==
    IF path = "/" THEN Some("HomePage")
    ELSE IF path = "/sentinel" THEN Some("Sentinel")
    ELSE Null

\* The HashRouter starts at the route of the URL; a Sentinel element that
\* is rendered has its mount effect outstanding.  The page scans the
\* fixtures only.
Init ==
    /\ allEvents = MOCK_ASSET_EVENTS
    /\ allStatuses = MOCK_OPERATOR_STATUSES
    /\ returned = Null
    /\ clock = 0
    /\ route \in Routes
    /\ effectPending = (RouteElement(route) = Some("Sentinel"))
    /\ report = Null
    /\ isScanning = FALSE
    /\ pending = <<>>
    /\ autoScans = 0
    /\ userScans = 0
    /\ outcomes = <<>>
    /\ navigations = 0

\* Navigate with a path the router has no route for.
NavigateUnrouted ==
    /\ route = "/"
    /\ route' = "/dashboard"
    /\ effectPending' = (RouteElement(route') = Some("Sentinel"))
    /\ navigations' = navigations + 1
    /\ UNCHANGED <<engineVars, clock, report, isScanning, pending,
                   autoScans, userScans, outcomes>>

\* Home: the button's onClick, navigate('/sentinel'); the router renders
\* the element of the new route, and a Sentinel just mounted has its
\* effect outstanding.
Navigate ==
    /\ route = "/"
    /\ route' = "/sentinel"
    /\ effectPending' = (RouteElement(route') = Some("Sentinel"))
    /\ navigations' = navigations + 1
    /\ UNCHANGED <<engineVars, clock, report, isScanning, pending,
                   autoScans, userScans, outcomes>>

\* executeScan up to its await: setIsScanning(true), then the call of
\* runIntegrityScan on the fixtures, which runs at once and hands back a
\* promise, fulfilled with the report or rejected (the case the catch
\* clause is there for).
ExecuteScan(origin) ==
    /\ isScanning' = TRUE
    /\ \/ /\ Scan(allEvents, allStatuses)
          /\ pending' = Append(pending,
                               [origin |-> origin, result |-> returned'])
       \/ /\ pending' = Append(pending, [origin |-> origin, result |-> Null])
          /\ UNCHANGED <<returned, clock>>
    /\ UNCHANGED <<allEvents, allStatuses, route, report, outcomes,
                   navigations>>

\* MountEffect without the call of executeScan.
MountEffectNoScan ==
    /\ route = "/sentinel"
    /\ effectPending
    /\ effectPending' = FALSE
    /\ UNCHANGED <<engineVars, clock, route, report, isScanning, pending,
                   autoScans, userScans, outcomes, navigations>>

\* useEffect(() => { executeScan() }, []): once, after the first render.
MountEffect ==
    /\ route = "/sentinel"
    /\ effectPending
    /\ effectPending' = FALSE
    /\ autoScans' = autoScans + 1
    /\ ExecuteScan("auto")
    /\ UNCHANGED userScans

\* <Button onClick={executeScan} disabled={isScanning}>
ClickScan ==
    /\ route = "/sentinel"
    /\ ~isScanning
    /\ userScans < MaxClicks
    /\ userScans' = userScans + 1
    /\ ExecuteScan("user")
    /\ UNCHANGED <<effectPending, autoScans>>

\* ResumeScan whose setIsScanning(false) sits in the try block, not in a
\* finally clause.
ResumeScanNoFinally ==
    /\ pending # <<>>
    /\ LET scan == Head(pending)
       IN  /\ IF scan.result # Null
              THEN report' = scan.result /\ isScanning' = FALSE
              ELSE UNCHANGED <<report, isScanning>>
           /\ outcomes' = Append(outcomes, [origin |-> scan.origin,
                                            ok |-> scan.result # Null])
    /\ pending' = Tail(pending)
    /\ UNCHANGED <<engineVars, clock, route, effectPending,
                   autoScans, userScans, navigations>>

\* ResumeScan whose catch clause also calls setReport(null).
ResumeScanClearsReport ==
    /\ pending # <<>>
    /\ LET scan == Head(pending)
       IN  /\ report' = scan.result
           /\ outcomes' = Append(outcomes, [origin |-> scan.origin,
                                            ok |-> scan.result # Null])
    /\ isScanning' = FALSE
    /\ pending' = Tail(pending)
    /\ UNCHANGED <<engineVars, clock, route, effectPending,
                   autoScans, userScans, navigations>>

\* executeScan after its await: setReport(scanReport) when the promise was
\* fulfilled, console.error when it was rejected, setIsScanning(false) in
\* both cases.  The awaits resume in the order they were made.
ResumeScan ==
    /\ pending # <<>>
    /\ LET scan == Head(pending)
       IN  /\ IF scan.result # Null
              THEN report' = scan.result
              ELSE UNCHANGED report
           /\ outcomes' = Append(outcomes, [origin |-> scan.origin,
                                            ok |-> scan.result # Null])
    /\ isScanning' = FALSE
    /\ pending' = Tail(pending)
    /\ UNCHANGED <<engineVars, clock, route, effectPending,
                   autoScans, userScans, navigations>>

\* Time passes.
Tick ==
    /\ clock < MaxClock
    /\ clock' = clock + 1
    /\ UNCHANGED <<engineVars, pageVars>>

\* Sentinel's render: {report ? (the report) : (the loading indicator)}.
LoadingShown == RouteElement(route) = Some("Sentinel") /\ report = Null

Next == Navigate \/ MountEffect \/ ClickScan \/ ResumeScan \/ Tick

Spec == Init /\ [][Next]_vars

\* React runs the effect of a mounted component, and a settled promise
\* resumes the function awaiting it; the user need not do anything.
FairSpec == Spec /\ WF_vars(MountEffect) /\ WF_vars(ResumeScan)

---------------------------------------------------------------------------
(* Claims about the fixtures and the dashboard page (Spec, FairSpec) *)

Critical(v) == v.severity = "CRITICAL"
Warning(v) == v.severity = "WARNING"
Refs(Test(_)) ==
    {Result.violations[p].protocolRef : p \in Positions(Result.violations, Test)}

\* What C1 says of each violation of the fixtures, of criticalAssetCount
\* and of systemHealthScore.
FixtureFacts ==
    /\ Refs(Critical) = {"CCP-3.1", "CCP-4.1"}
    /\ Refs(Warning) = {"CCP-4.2"}
    /\ Result.criticalAssetCount = 1
    /\ Result.systemHealthScore = 80

\* C1 as stated: the scan of the fixtures returns exactly 2 violations,
\* CCP-3.1 and CCP-4.1 CRITICAL and CCP-4.2 WARNING, criticalAssetCount = 1
\* and systemHealthScore = 0.80.
C1_AsStated == Scanned => (Len(Result.violations) = 2 /\ FixtureFacts)

\* C1, amended: the scan of the fixtures returns exactly 3 violations, in
\* this order: ASSET-202 DATA_INTEGRITY / CRITICAL / CCP-3.1, OP-JOE
\* TRUST_VIOLATION / CRITICAL / CCP-4.1 and OP-KORE PROTOCOL_BREACH /
\* WARNING / CCP-4.2, with criticalAssetCount = 1 and systemHealthScore =
\* 0.80.
C1_FixtureReport ==
    Scanned =>
        /\ Result.violations =
              << Violation("ASSET-202", "DATA_INTEGRITY", "CRITICAL", "CCP-3.1"),
                 Violation("OP-JOE", "TRUST_VIOLATION", "CRITICAL", "CCP-4.1"),
                 Violation("OP-KORE", "PROTOCOL_BREACH", "WARNING", "CCP-4.2") >>
        /\ Len(Result.violations) = 3
        /\ FixtureFacts

\* The page holds the report of a scan of the fixtures.
C1_Witness ==
    /\ Scanned
    /\ allEvents = MOCK_ASSET_EVENTS
    /\ allStatuses = MOCK_OPERATOR_STATUSES
    /\ report # Null
    /\ Len(Value(report).violations) = 3

Ended(origin, ok) ==
    \E i \in DOMAIN outcomes : outcomes[i] = [origin |-> origin, ok |-> ok]

\* C8: once the dashboard page is loaded its mount effect starts exactly
\* one automatic scan, whether or not the user does anything, and from the
\* moment that scan has ended successfully a report is held.
C8_AutomaticScan ==
    /\ [](/\ autoScans <= 1
          /\ (route = "/sentinel" /\ ~effectPending) => autoScans = 1
          /\ Ended("auto", TRUE) => report # Null)
    /\ (route = "/sentinel") ~> (autoScans = 1)
    /\ (autoScans = 1) ~> (Ended("auto", TRUE) \/ Ended("auto", FALSE))

\* The automatic scan has ended successfully and a report is held, with no
\* activation of the scan control.
C8_Witness ==
    /\ route = "/sentinel"
    /\ autoScans = 1
    /\ userScans = 0
    /\ outcomes = << [origin |-> "auto", ok |-> TRUE] >>
    /\ report # Null

\* C9: on one page instance at most one scan is in flight at any time.
C9_AtMostOneInFlight == Len(pending) <= 1

\* A step in which a suspended executeScan resumes from a rejected promise.
FailedScanEnds ==
    /\ pending # <<>>
    /\ Head(pending).result = Null
    /\ pending' = Tail(pending)

\* C10: when a scan fails, the in-progress flag is cleared and the held
\* report stays as it was (absent if none was held), and no scan is
\* started; after every scan, successful or failed, the in-progress flag
\* returns to false.
C10_FailedScan ==
    /\ [][FailedScanEnds =>
            /\ isScanning' = FALSE
            /\ report' = report
            /\ Len(pending') = Len(pending) - 1
            /\ autoScans' = autoScans
            /\ userScans' = userScans]_vars
    /\ [](pending = <<>> => ~isScanning)
    /\ isScanning ~> ~isScanning

\* A scan started by the user failed after a report was held: the report
\* is still held and the flag is clear.
C10_Witness ==
    /\ Len(outcomes) >= 2
    /\ outcomes[Len(outcomes)] = [origin |-> "user", ok |-> FALSE]
    /\ report # Null
    /\ ~isScanning
    /\ pending = <<>>

---------------------------------------------------------------------------
(* Claims about navigation (Spec) *)

\* Paths tried against the router, routed or not.
SamplePaths == Routes \cup {"", "/dashboard", "/home", "/sentinel/"}

\* C11: activating the landing page's action control changes the active
\* route from / to /sentinel and to no other route, which renders the
\* dashboard page; the router has exactly the two routes / (landing page)
\* and /sentinel (dashboard page), and the active route is always one of
\* them.
C11_Navigation ==
    /\ [][navigations' # navigations =>
            /\ route = "/"
            /\ route' = "/sentinel"
            /\ RouteElement(route') = Some("Sentinel")]_vars
    /\ [](/\ route \in {"/", "/sentinel"}
          /\ Routes = {"/", "/sentinel"}
          /\ RouteElement("/") = Some("HomePage")
          /\ RouteElement("/sentinel") = Some("Sentinel")
          /\ \A path \in SamplePaths :
                (RouteElement(path) # Null) <=> (path \in Routes))

\* The control was activated on the landing page and the dashboard page
\* has just been mounted.
C11_Witness ==
    /\ navigations = 1
    /\ route = "/sentinel"
    /\ effectPending
    /\ autoScans = 0

---------------------------------------------------------------------------
(* Claims about the number of violations (SpecEngine) *)

OperatorDerived(v) == IsOperatorId(v.id)

\* C12: in every scan each operator status has at most one violation, so
\* never both the CCP-4.1 and the CCP-4.2 one; the operator-derived
\* violations are no more than the operator statuses and the violations
\* no more than the asset events plus the operator statuses.
C12_OneViolationPerOperator ==
    Scanned =>
        /\ \A i \in DOMAIN allStatuses :
              LET mine == ViolationsOf(allStatuses[i].operatorId)
              IN  /\ Cardinality(mine) <= 1
                  /\ ~ \E p, q \in mine :
                          /\ Result.violations[p].protocolRef = "CCP-4.1"
                          /\ Result.violations[q].protocolRef = "CCP-4.2"
        /\ Cardinality(Positions(Result.violations, OperatorDerived))
              <= Len(allStatuses)
        /\ Len(Result.violations) <= Len(allEvents) + Len(allStatuses)

\* Every entity scanned has its violation: an asset event with CCP-3.1, an
\* operator with CCP-4.1 and another with CCP-4.2.
C12_Witness ==
    /\ Scanned
    /\ Len(allEvents) = 1
    /\ Len(allStatuses) = 2
    /\ Len(Result.violations) = 3
    /\ \E p, q \in DOMAIN Result.violations :
          /\ Result.violations[p].protocolRef = "CCP-4.1"
          /\ Result.violations[q].protocolRef = "CCP-4.2"

---------------------------------------------------------------------------
(* Claims about the held report (Spec) *)

\* A step in which a suspended executeScan resumes.
ScanEnds == pending # <<>> /\ pending' = Tail(pending)

NoScanSucceededYet == \A i \in DOMAIN outcomes : ~outcomes[i].ok

\* C13: on one page instance a report once held is never absent again:
\* a scan that ends successfully replaces it by its own report, a scan
\* that fails keeps it; so the loading indicator is shown exactly while no
\* scan has succeeded yet and, once gone, does not come back.
C13_ReportStaysHeld ==
    /\ [][report # Null => report' # Null]_vars
    /\ [][ScanEnds =>
            report' = IF Head(pending).result # Null
                      THEN Head(pending).result
                      ELSE report]_vars
    /\ [](LoadingShown <=> (route = "/sentinel" /\ NoScanSucceededYet))
    /\ [][(route = "/sentinel" /\ ~LoadingShown) => ~LoadingShown']_vars

\* A scan succeeded, the next failed, a later one succeeded with a report
\* of a later time: a report is held and the indicator is not shown.
C13_Witness ==
    /\ Len(outcomes) = 3
    /\ outcomes[1].ok
    /\ ~outcomes[2].ok
    /\ outcomes[3].ok
    /\ report # Null
    /\ report = returned
    /\ Value(report).timestamp > 0
    /\ ~LoadingShown

=============================================================================
